---- MODULE Spec2Model ----
(***************************************************************************)
(* State-machine model of the hand detection blocks of xcx-mp-hand         *)
(* (src/src/vm/extensions/block/index.js): the detection loop started by   *)
(* startHandDetection, stopHandDetection, the one-shot detectHandOnStage,  *)
(* the video side effects and the query blocks reading this.hands.         *)
(*                                                                         *)
(* JavaScript runs each handler to completion, so one action is one        *)
(* handler run up to its return or its next await.  detect() is an async   *)
(* function of hand-landmarker.js: the code after `await detect(image)`    *)
(* is a separate action that runs when the detector call settles.          *)
(* Landmark coordinates are fixed-point: one unit is 1/1000.               *)
(***************************************************************************)
EXTENDS Integers, Sequences, FiniteSets, TLC

\* ---------------------------------------------------------------- bounds
\* live loop continuations (pending timers + loop detector calls) explored
MaxChains == 2
\* one-shot detections pending at the same time
MaxOneShot == 1
\* largest number of hands in a detector result
MaxResultHands == 2
\* detector reinitialisations and reconfigurations not yet settled
MaxReinit == 2

\* costumes of the target whose costume is looked up
MaxCostumes == 3

\* ------------------------------------------------------- program constants
DefaultIntervalTime == 100
LastLandmark == 20
StageWidth == 480
StageHeight == 360
DepthScale == 200
DefaultTransparency == 50
DefaultNumHands == 4
Radix == 10

VideoState == [OFF |-> "off", ON |-> "on", ON_FLIPPED |-> "on-flipped"]

VideoStates == {VideoState.OFF, VideoState.ON, VideoState.ON_FLIPPED}

\* runtime.getTargetForStage() returns the stage target or nothing
NoStage == [present |-> FALSE]

StageTargets ==
    [present : {TRUE}, videoState : VideoStates, videoTransparency : {DefaultTransparency}]

\* ------------------------------------------------------- detector results
\* image-space landmark i of hand h (0-based), as the detector reports it
ImageLandmark(h, i) ==
    [x |-> IF h = 0 THEN 500 + 10 * i ELSE 300 - 10 * i,
     y |-> 600 - 5 * i,
     z |-> 100 - 10 * i]

\* world landmark i of hand h (0-based)
WorldLandmark(h, i) ==
    [x |-> IF h = 0 THEN 10 - i ELSE i - 10 - h,
     y |-> (0 - 10) - 2 * (i % 5),
     z |-> (0 - 5) - 2 * (i \div 5)]

HandLabel(h) == IF h % 2 = 0 THEN "Right" ELSE "Left"

\* a well-formed HandLandmarkerResult with n hands
MakeResult(n) ==
    [kind |-> "result",
     handednesses |-> [k \in 1..n |-> HandLabel(k - 1)],
     landmarks |-> [k \in 1..n |-> [j \in 1..(LastLandmark + 1) |-> ImageLandmark(k - 1, j - 1)]],
     worldLandmarks |-> [k \in 1..n |-> [j \in 1..(LastLandmark + 1) |-> WorldLandmark(k - 1, j - 1)]]]

DetectorResults == {MakeResult(n) : n \in 0..MaxResultHands}

\* the two non-result values this.hands takes: null and the empty array []
NullHands == [kind |-> "null"]
EmptyArray == [kind |-> "array"]

\* ---------------------------------------------------------------- inputs
\* block arguments: numbers, and a string that is not a number
Num(v) == [kind |-> "num", v |-> v]
NotANumber == [kind |-> "nan"]
\* the number v + 1/2
Half(v) == [kind |-> "half", v |-> v]

\* Cast.toNumber: a number is itself, NaN and unparsable strings are 0
ToNumber(a) == IF a.kind = "num" THEN a.v ELSE 0

Max(a, b) == IF a >= b THEN a ELSE b

\* Cast.toNumber(args.HAND_NUMBER) - 1, rounded down: the range checks
\* compare the index with integers, so they decide as they do on its floor
HandIndex(handNumber) ==
    (IF handNumber.kind = "half" THEN handNumber.v ELSE ToNumber(handNumber)) - 1

TimeInputs == {Num(0 - 5), Num(200), NotANumber}

\* ------------------------------------------------------------ model path
\* a path is a sequence of characters; this one stands for the default URL
DefaultModelAssetPath == <<"m">>

\* String.prototype.trim: drops the white space at both ends
RECURSIVE TrimStart(_)
TrimStart(s) == IF s # <<>> /\ Head(s) = " " THEN TrimStart(Tail(s)) ELSE s

RECURSIVE TrimEnd(_)
TrimEnd(s) ==
    IF s # <<>> /\ s[Len(s)] = " " THEN TrimEnd(SubSeq(s, 1, Len(s) - 1)) ELSE s

\* a trim that leaves the string as it is
Trim_nothing(s) == s

Trim(s) == TrimEnd(TrimStart(s))

PathInputs == {<<>>, <<" ", " ">>, <<" ", "a", " ">>, <<"b">>}

NumHandsInputs == {Num(0), Num(0 - 1), Num(1), Num(2), NotANumber}

TransparencyInputs == {Num(75), Num(0), NotANumber}

\* s without its k-th element
Remove(s, k) == SubSeq(s, 1, k - 1) \o SubSeq(s, k + 1, Len(s))

VARIABLES
    handDetecting,          \* this.handDetecting
    hands,                  \* this.hands, the hand result cache
    detectionInterval,      \* this.detectionInterval: a timer id, 0 for null
    detectionIntervalTime,  \* this.detectionIntervalTime
    timers,                 \* pending setTimeout(detectFrame, delay) timers
    loopCalls,              \* detect() calls of detectFrame not yet settled
    stage,                  \* the stage target of the runtime
    videoOn,                \* video device: enabled
    mirror,                 \* video device: mirror flag
    ghost,                  \* video device: preview ghost value
    landmarker,             \* hand-landmarker.js module state
    oneShot,                \* detectHandOnStage calls by pipeline position
    handler,                \* the handler that ran last
    calls,                  \* collaborator calls made by the last handler
    returned,               \* value the last handler returned or resolved with
    asked                   \* arguments of the query block that ran last

vars == <<handDetecting, hands, detectionInterval, detectionIntervalTime, timers,
          loopCalls, stage, videoOn, mirror, ghost, landmarker, oneShot, handler, calls,
          returned, asked>>

loopVars == <<handDetecting, hands, detectionInterval, detectionIntervalTime, timers, loopCalls>>
videoVars == <<stage, videoOn, mirror, ghost>>

NoReturn == "none"

\* a promise was returned that no continuation has settled yet
Pending == "pending"

\* the last handler was not a query block
NoQuery == [hand |-> NotANumber, landmark |-> NotANumber]

OneShotStages == {"snapshot", "decode", "detect", "costume"}

OneShotPending ==
    oneShot["snapshot"] + oneShot["decode"] + oneShot["detect"] + oneShot["costume"]

\* ------------------------------------------------------------ video state
\* get globalVideoState
globalVideoState == IF stage.present THEN stage.videoState ELSE VideoState.OFF

\* set globalVideoState
SetGlobalVideoState(s) == IF stage.present THEN [stage EXCEPT !.videoState = s] ELSE stage

\* get globalVideoTransparency
globalVideoTransparency ==
    IF stage.present THEN stage.videoTransparency ELSE DefaultTransparency

\* set globalVideoTransparency that makes up a target when there is none
SetGlobalVideoTransparency_always(st, transparency) ==
    [present |-> TRUE,
     videoState |-> IF st.present THEN st.videoState ELSE VideoState.OFF,
     videoTransparency |-> transparency]

\* set globalVideoTransparency, on the stage target st
SetGlobalVideoTransparency(st, transparency) ==
    IF st.present THEN [st EXCEPT !.videoTransparency = transparency] ELSE st

\* ---------------------------------------------------- hand-landmarker.js
\* modelAssetPath, numHands; handLandmarker as the path it was created with;
\* createImageHandLandmarker and setOptions promises not yet settled
modelAssetPath == landmarker.modelAssetPath
numHands == landmarker.numHands
handLandmarker == landmarker.handLandmarker
Reinits == Len(landmarker.creating) + Len(landmarker.configuring)

\* setModelAssetPath storing the path only with the new landmarker
SetModelAssetPath_storesLate(path) ==
    [landmarker EXCEPT !.creating = Append(@, path)]

\* hand-landmarker.js setModelAssetPath(path) up to its await
SetModelAssetPath(path) ==
    [landmarker EXCEPT !.modelAssetPath = path, !.creating = Append(@, path)]

\* ------------------------------------------------------------------ timers
\* setTimeout returns an id no pending timer has; the only id the program
\* remembers is detectionInterval, so the smallest other id stands for it
FreshTimerId(pending) ==
    LET used == {t.id : t \in pending} \cup {detectionInterval}
    IN  CHOOSE n \in 1..(Cardinality(pending) + 2) :
            /\ n \notin used
            /\ \A m \in 1..(n - 1) : m \in used

\* setTimeout(detectFrame, this.detectionIntervalTime), given the pending timers
SetTimeout(pending) == [id |-> FreshTimerId(pending), delay |-> detectionIntervalTime]

\* clearInterval(id): removes the pending timer with that id, if any
ClearInterval(id) == {t \in timers : t.id # id}

\* live continuations of the detection loop
Chains == Cardinality(timers) + loopCalls

Init ==
    /\ handDetecting = FALSE
    /\ hands = NullHands
    /\ detectionInterval = 0
    /\ detectionIntervalTime = DefaultIntervalTime
    /\ timers = {}
    /\ loopCalls = 0
    /\ stage \in {NoStage} \cup StageTargets
    /\ videoOn = FALSE
    /\ mirror \in BOOLEAN
    /\ ghost = 0
    /\ landmarker = [modelAssetPath |-> DefaultModelAssetPath,
                     numHands |-> DefaultNumHands,
                     handLandmarker |-> DefaultModelAssetPath,
                     creating |-> <<>>,
                     configuring |-> <<>>]
    /\ oneShot = [s \in OneShotStages |-> 0]
    /\ handler = "constructor"
    /\ calls = {}
    /\ returned = NoReturn
    /\ asked = NoQuery

\* ------------------------------------------------------- detection loop
\* startHandDetection() without the `if (this.handDetecting) return`
startHandDetection_noEarlyReturn ==
    /\ handler' = "startHandDetection"
    /\ asked' = NoQuery
    /\ UNCHANGED landmarker
    /\ Chains < MaxChains
    /\ LET off == globalVideoState = VideoState.OFF
           videoCalls == IF off THEN {"enableVideo"} ELSE {}
       IN  /\ videoOn' = (IF off THEN TRUE ELSE videoOn)
           /\ mirror' = (IF off THEN TRUE ELSE mirror)
           /\ handDetecting' = TRUE
           /\ timers' = timers \cup {SetTimeout(timers)}
           /\ detectionInterval' = SetTimeout(timers).id
           /\ calls' = videoCalls \cup {"setTimeout"}
           /\ UNCHANGED <<hands, detectionIntervalTime, loopCalls>>
    /\ returned' = NoReturn
    /\ UNCHANGED <<stage, ghost, oneShot>>

\* startHandDetection()
startHandDetection ==
    /\ handler' = "startHandDetection"
    /\ asked' = NoQuery
    /\ UNCHANGED landmarker
    /\ handDetecting \/ Chains < MaxChains
    /\ LET off == globalVideoState = VideoState.OFF
           videoCalls == IF off THEN {"enableVideo"} ELSE {}
       IN  /\ videoOn' = (IF off THEN TRUE ELSE videoOn)
           /\ mirror' = (IF off THEN TRUE ELSE mirror)
           /\ IF handDetecting
              THEN /\ calls' = videoCalls
                   /\ UNCHANGED loopVars
              ELSE /\ handDetecting' = TRUE
                   /\ timers' = timers \cup {SetTimeout(timers)}
                   /\ detectionInterval' = SetTimeout(timers).id
                   /\ calls' = videoCalls \cup {"setTimeout"}
                   /\ UNCHANGED <<hands, detectionIntervalTime, loopCalls>>
    /\ returned' = NoReturn
    /\ UNCHANGED <<stage, ghost, oneShot>>

\* detectFrame without the `if (!this.handDetecting) return` at its top
detectFrame_noRunningCheck(t, frame) ==
    /\ handler' = "detectFrame"
    /\ asked' = NoQuery
    /\ UNCHANGED landmarker
    /\ t \in timers
    /\ returned' = NoReturn
    /\ UNCHANGED <<handDetecting, hands, detectionIntervalTime, videoVars, oneShot>>
    /\ IF ~frame
       THEN /\ timers' = (timers \ {t}) \cup {SetTimeout(timers \ {t})}
            /\ detectionInterval' = SetTimeout(timers \ {t}).id
            /\ calls' = {"getFrame", "setTimeout"}
            /\ UNCHANGED loopCalls
       ELSE /\ timers' = timers \ {t}
            /\ loopCalls' = loopCalls + 1
            /\ calls' = {"getFrame", "detect"}
            /\ UNCHANGED detectionInterval

\* detectFrame that sends the missing frame to the detector
detectFrame_detectsWithoutFrame(t, frame) ==
    /\ handler' = "detectFrame"
    /\ asked' = NoQuery
    /\ UNCHANGED landmarker
    /\ t \in timers
    /\ returned' = NoReturn
    /\ UNCHANGED <<handDetecting, hands, detectionIntervalTime, videoVars, oneShot>>
    /\ IF ~handDetecting
       THEN /\ timers' = timers \ {t}
            /\ calls' = {}
            /\ UNCHANGED <<detectionInterval, loopCalls>>
       ELSE /\ timers' = timers \ {t}
            /\ loopCalls' = loopCalls + 1
            /\ calls' = {"getFrame", "detect"}
            /\ UNCHANGED detectionInterval

\* detectFrame, from the timer firing to its return or to `await detect(image)`
detectFrame(t, frame) ==
    /\ handler' = "detectFrame"
    /\ asked' = NoQuery
    /\ UNCHANGED landmarker
    /\ t \in timers
    /\ returned' = NoReturn
    /\ UNCHANGED <<handDetecting, hands, detectionIntervalTime, videoVars, oneShot>>
    /\ IF ~handDetecting
       THEN /\ timers' = timers \ {t}
            /\ calls' = {}
            /\ UNCHANGED <<detectionInterval, loopCalls>>
       ELSE IF ~frame
       THEN /\ timers' = (timers \ {t}) \cup {SetTimeout(timers \ {t})}
            /\ detectionInterval' = SetTimeout(timers \ {t}).id
            /\ calls' = {"getFrame", "setTimeout"}
            /\ UNCHANGED loopCalls
       ELSE /\ timers' = timers \ {t}
            /\ loopCalls' = loopCalls + 1
            /\ calls' = {"getFrame", "detect"}
            /\ UNCHANGED detectionInterval

\* detectFrame after a successful detect() that keeps the old cache when
\* the result has no hand
detectFrameResolved_keepsOnZeroHands(result) ==
    /\ handler' = "detectFrameResolved"
    /\ asked' = NoQuery
    /\ UNCHANGED landmarker
    /\ loopCalls > 0
    /\ loopCalls' = loopCalls - 1
    /\ hands' = (IF Len(result.handednesses) = 0 THEN hands ELSE result)
    /\ timers' = timers \cup {SetTimeout(timers)}
    /\ detectionInterval' = SetTimeout(timers).id
    /\ calls' = {"setTimeout"}
    /\ returned' = NoReturn
    /\ UNCHANGED <<handDetecting, detectionIntervalTime, videoVars, oneShot>>

\* detectFrame patching the handednesses of the cached result
detectFrameResolved_patches(result) ==
    /\ handler' = "detectFrameResolved"
    /\ asked' = NoQuery
    /\ UNCHANGED landmarker
    /\ loopCalls > 0
    /\ loopCalls' = loopCalls - 1
    /\ hands' = (IF Len(result.handednesses) = 0 THEN NullHands
                 ELSE IF hands.kind = "result"
                      THEN [hands EXCEPT !.handednesses = result.handednesses]
                      ELSE result)
    /\ timers' = timers \cup {SetTimeout(timers)}
    /\ detectionInterval' = SetTimeout(timers).id
    /\ calls' = {"setTimeout"}
    /\ returned' = NoReturn
    /\ UNCHANGED <<handDetecting, detectionIntervalTime, videoVars, oneShot>>

\* detectFrame after `await detect(image)` returned result: try body, finally
detectFrameResolved(result) ==
    /\ handler' = "detectFrameResolved"
    /\ asked' = NoQuery
    /\ UNCHANGED landmarker
    /\ loopCalls > 0
    /\ loopCalls' = loopCalls - 1
    /\ hands' = (IF Len(result.handednesses) = 0 THEN NullHands ELSE result)
    /\ timers' = timers \cup {SetTimeout(timers)}
    /\ detectionInterval' = SetTimeout(timers).id
    /\ calls' = {"setTimeout"}
    /\ returned' = NoReturn
    /\ UNCHANGED <<handDetecting, detectionIntervalTime, videoVars, oneShot>>

\* detectFrame after a failed detect() whose catch clears the cache
detectFrameRejected_clearsCache ==
    /\ handler' = "detectFrameRejected"
    /\ asked' = NoQuery
    /\ UNCHANGED landmarker
    /\ loopCalls > 0
    /\ loopCalls' = loopCalls - 1
    /\ hands' = NullHands
    /\ timers' = timers \cup {SetTimeout(timers)}
    /\ detectionInterval' = SetTimeout(timers).id
    /\ calls' = {"console.error", "setTimeout"}
    /\ returned' = NoReturn
    /\ UNCHANGED <<handDetecting, detectionIntervalTime, videoVars, oneShot>>

\* detectFrame after a failed detect() with the reschedule in the try body
\* instead of finally: a failure ends the loop
detectFrameRejected_noReschedule ==
    /\ handler' = "detectFrameRejected"
    /\ asked' = NoQuery
    /\ UNCHANGED landmarker
    /\ loopCalls > 0
    /\ loopCalls' = loopCalls - 1
    /\ calls' = {"console.error"}
    /\ returned' = NoReturn
    /\ UNCHANGED <<handDetecting, hands, detectionInterval, detectionIntervalTime, timers,
                   videoVars, oneShot>>

\* detectFrame after `await detect(image)` threw: catch, finally
detectFrameRejected ==
    /\ handler' = "detectFrameRejected"
    /\ asked' = NoQuery
    /\ UNCHANGED landmarker
    /\ loopCalls > 0
    /\ loopCalls' = loopCalls - 1
    /\ timers' = timers \cup {SetTimeout(timers)}
    /\ detectionInterval' = SetTimeout(timers).id
    /\ calls' = {"console.error", "setTimeout"}
    /\ returned' = NoReturn
    /\ UNCHANGED <<handDetecting, hands, detectionIntervalTime, videoVars, oneShot>>

\* stopHandDetection() that also puts the interval back to its default
stopHandDetection_resetsInterval ==
    /\ handler' = "stopHandDetection"
    /\ asked' = NoQuery
    /\ UNCHANGED landmarker
    /\ handDetecting' = FALSE
    /\ timers' = ClearInterval(detectionInterval)
    /\ detectionInterval' = 0
    /\ detectionIntervalTime' = DefaultIntervalTime
    /\ hands' = EmptyArray
    /\ calls' = IF detectionInterval # 0 THEN {"clearInterval"} ELSE {}
    /\ returned' = NoReturn
    /\ UNCHANGED <<loopCalls, videoVars, oneShot>>

\* stopHandDetection() that flips this.handDetecting
stopHandDetection_toggles ==
    /\ handler' = "stopHandDetection"
    /\ asked' = NoQuery
    /\ UNCHANGED landmarker
    /\ handDetecting' = ~handDetecting
    /\ timers' = ClearInterval(detectionInterval)
    /\ detectionInterval' = 0
    /\ hands' = EmptyArray
    /\ calls' = IF detectionInterval # 0 THEN {"clearInterval"} ELSE {}
    /\ returned' = NoReturn
    /\ UNCHANGED <<detectionIntervalTime, loopCalls, videoVars, oneShot>>

\* stopHandDetection() without `this.hands = []`
stopHandDetection_keepsHands ==
    /\ handler' = "stopHandDetection"
    /\ asked' = NoQuery
    /\ UNCHANGED landmarker
    /\ handDetecting' = FALSE
    /\ IF detectionInterval # 0
       THEN /\ timers' = ClearInterval(detectionInterval)
            /\ detectionInterval' = 0
            /\ calls' = {"clearInterval"}
       ELSE /\ calls' = {}
            /\ UNCHANGED <<timers, detectionInterval>>
    /\ returned' = NoReturn
    /\ UNCHANGED <<hands, detectionIntervalTime, loopCalls, videoVars, oneShot>>

\* stopHandDetection() without `this.handDetecting = false`
stopHandDetection_keepsRunning ==
    /\ handler' = "stopHandDetection"
    /\ asked' = NoQuery
    /\ UNCHANGED landmarker
    /\ IF detectionInterval # 0
       THEN /\ timers' = ClearInterval(detectionInterval)
            /\ detectionInterval' = 0
            /\ calls' = {"clearInterval"}
       ELSE /\ calls' = {}
            /\ UNCHANGED <<timers, detectionInterval>>
    /\ hands' = EmptyArray
    /\ returned' = NoReturn
    /\ UNCHANGED <<handDetecting, detectionIntervalTime, loopCalls, videoVars, oneShot>>

\* stopHandDetection()
stopHandDetection ==
    /\ handler' = "stopHandDetection"
    /\ asked' = NoQuery
    /\ UNCHANGED landmarker
    /\ handDetecting' = FALSE
    /\ IF detectionInterval # 0
       THEN /\ timers' = ClearInterval(detectionInterval)
            /\ detectionInterval' = 0
            /\ calls' = {"clearInterval"}
       ELSE /\ calls' = {}
            /\ UNCHANGED <<timers, detectionInterval>>
    /\ hands' = EmptyArray
    /\ returned' = NoReturn
    /\ UNCHANGED <<detectionIntervalTime, loopCalls, videoVars, oneShot>>

\* isHandDetecting()
isHandDetecting == handDetecting

\* getDetectionIntervalTime()
getDetectionIntervalTime == detectionIntervalTime

\* setDetectionIntervalTime({TIME}) without Math.max(0, time)
setDetectionIntervalTime_noClamp(time) ==
    /\ handler' = "setDetectionIntervalTime"
    /\ asked' = NoQuery
    /\ UNCHANGED landmarker
    /\ detectionIntervalTime' = ToNumber(time)
    /\ calls' = {}
    /\ returned' = NoReturn
    /\ UNCHANGED <<handDetecting, hands, detectionInterval, timers, loopCalls, videoVars, oneShot>>

\* setDetectionIntervalTime({TIME}) that also re-arms the pending timers
setDetectionIntervalTime_rearms(time) ==
    /\ handler' = "setDetectionIntervalTime"
    /\ asked' = NoQuery
    /\ UNCHANGED landmarker
    /\ detectionIntervalTime' = Max(0, ToNumber(time))
    /\ timers' = {[id |-> t.id, delay |-> Max(0, ToNumber(time))] : t \in timers}
    /\ calls' = {}
    /\ returned' = NoReturn
    /\ UNCHANGED <<handDetecting, hands, detectionInterval, loopCalls, videoVars, oneShot>>

\* setDetectionIntervalTime({TIME})
setDetectionIntervalTime(time) ==
    /\ handler' = "setDetectionIntervalTime"
    /\ asked' = NoQuery
    /\ UNCHANGED landmarker
    /\ detectionIntervalTime' = Max(0, ToNumber(time))
    /\ calls' = {}
    /\ returned' = NoReturn
    /\ UNCHANGED <<handDetecting, hands, detectionInterval, timers, loopCalls, videoVars, oneShot>>

\* ----------------------------------------------------------------- queries
\* `!this.hands || !this.hands.handednesses`: null is falsy, and the empty
\* array [] has no handednesses property
NoHandednesses == hands.kind = "null" \/ hands.kind = "array"

\* numberOfHands()
numberOfHands == IF NoHandednesses THEN 0 ELSE Len(hands.handednesses)

NoLandmark == [kind |-> "null"]

\* handLandmark(handIndex, landmarkIndex), both 0-based
handLandmark(handIndex, landmarkIndex) ==
    IF NoHandednesses THEN NoLandmark
    ELSE IF handIndex < 0 \/ handIndex >= Len(hands.handednesses) THEN NoLandmark
    ELSE IF landmarkIndex < 0 \/ landmarkIndex > LastLandmark THEN NoLandmark
    ELSE hands.landmarks[handIndex + 1][landmarkIndex + 1]

\* handLandmarkX({HAND_NUMBER, LANDMARK}): (x - 0.5) * 480
handLandmarkX(handNumber, landmarkArg) ==
    LET landmark == handLandmark(HandIndex(handNumber), ToNumber(landmarkArg))
    IN  IF landmark = NoLandmark THEN 0 ELSE (landmark.x - 500) * StageWidth

\* handLandmarkY({HAND_NUMBER, LANDMARK}) without the axis inversion
handLandmarkY_notInverted(handNumber, landmarkArg) ==
    LET landmark == handLandmark(HandIndex(handNumber), ToNumber(landmarkArg))
    IN  IF landmark = NoLandmark THEN 0 ELSE (landmark.y - 500) * StageHeight

\* handLandmarkY({HAND_NUMBER, LANDMARK}): (0.5 - y) * 360
handLandmarkY(handNumber, landmarkArg) ==
    LET landmark == handLandmark(HandIndex(handNumber), ToNumber(landmarkArg))
    IN  IF landmark = NoLandmark THEN 0 ELSE (500 - landmark.y) * StageHeight

\* handLandmarkZ({HAND_NUMBER, LANDMARK}): z * 200
handLandmarkZ(handNumber, landmarkArg) ==
    LET landmark == handLandmark(HandIndex(handNumber), ToNumber(landmarkArg))
    IN  IF landmark = NoLandmark THEN 0 ELSE landmark.z * DepthScale

\* handedness({HAND_NUMBER}) converting to a 0-based index twice
handedness_shiftsTwice(handNumber) ==
    LET handIndex == HandIndex(handNumber) - 1
    IN  IF NoHandednesses THEN " "
        ELSE IF handIndex < 0 \/ handIndex >= Len(hands.handednesses) THEN " "
        ELSE hands.handednesses[handIndex + 1]

\* handedness({HAND_NUMBER})
handedness(handNumber) ==
    LET handIndex == HandIndex(handNumber)
    IN  IF NoHandednesses THEN " "
        ELSE IF handIndex < 0 \/ handIndex >= Len(hands.handednesses) THEN " "
        ELSE hands.handednesses[handIndex + 1]

\* handLandmarkRelative reading the image-space landmarks
handLandmarkRelative_imageSpace(handIndex, landmarkIndex) ==
    IF NoHandednesses THEN NoLandmark
    ELSE IF handIndex < 0 \/ handIndex >= Len(hands.handednesses) THEN NoLandmark
    ELSE IF landmarkIndex < 0 \/ landmarkIndex > LastLandmark THEN NoLandmark
    ELSE hands.landmarks[handIndex + 1][landmarkIndex + 1]

\* handLandmarkRelative(handIndex, landmarkIndex), both 0-based
handLandmarkRelative(handIndex, landmarkIndex) ==
    IF NoHandednesses THEN NoLandmark
    ELSE IF handIndex < 0 \/ handIndex >= Len(hands.handednesses) THEN NoLandmark
    ELSE IF landmarkIndex < 0 \/ landmarkIndex > LastLandmark THEN NoLandmark
    ELSE hands.worldLandmarks[handIndex + 1][landmarkIndex + 1]

\* handLandmarkRelativeX({HAND_NUMBER, LANDMARK})
handLandmarkRelativeX(handNumber, landmarkArg) ==
    LET landmark == handLandmarkRelative(HandIndex(handNumber), ToNumber(landmarkArg))
    IN  IF landmark = NoLandmark THEN 0 ELSE landmark.x

\* handLandmarkRelativeY({HAND_NUMBER, LANDMARK})
handLandmarkRelativeY(handNumber, landmarkArg) ==
    LET landmark == handLandmarkRelative(HandIndex(handNumber), ToNumber(landmarkArg))
    IN  IF landmark = NoLandmark THEN 0 ELSE 0 - landmark.y

\* handLandmarkRelativeZ({HAND_NUMBER, LANDMARK})
handLandmarkRelativeZ(handNumber, landmarkArg) ==
    LET landmark == handLandmarkRelative(HandIndex(handNumber), ToNumber(landmarkArg))
    IN  IF landmark = NoLandmark THEN 0 ELSE landmark.z

\* hand numbers and landmark indexes the query blocks are asked with
HandNumberArgs ==
    {Num(n) : n \in (0 - 1)..(MaxResultHands + 1)}
        \cup {Half(n) : n \in 0..MaxResultHands} \cup {NotANumber}
LandmarkArgs == {Num(n) : n \in (0 - 1)..(LastLandmark + 1)} \cup {NotANumber}

\* every query block answers as it does on an empty cache
EmptyAnswers ==
    /\ numberOfHands = 0
    /\ \A h \in HandNumberArgs :
        /\ handedness(h) = " "
        /\ \A i \in LandmarkArgs :
            /\ handLandmarkX(h, i) = 0
            /\ handLandmarkY(h, i) = 0
            /\ handLandmarkZ(h, i) = 0
            /\ handLandmarkRelativeX(h, i) = 0
            /\ handLandmarkRelativeY(h, i) = 0
            /\ handLandmarkRelativeZ(h, i) = 0

\* the values this.hands takes
CacheValues == {NullHands, EmptyArray} \cup DetectorResults

LandmarkBlocks == {"handLandmarkX", "handLandmarkY", "handLandmarkZ"}

RelativeLandmarkBlocks ==
    {"handLandmarkRelativeX", "handLandmarkRelativeY", "handLandmarkRelativeZ"}

QueryBlocks == {"numberOfHands", "handedness"} \cup LandmarkBlocks \cup RelativeLandmarkBlocks

\* what the query block answers for {HAND_NUMBER, LANDMARK}
Answer(block, handNumber, landmarkArg) ==
    CASE block = "numberOfHands" -> numberOfHands
      [] block = "handedness" -> handedness(handNumber)
      [] block = "handLandmarkX" -> handLandmarkX(handNumber, landmarkArg)
      [] block = "handLandmarkY" -> handLandmarkY(handNumber, landmarkArg)
      [] block = "handLandmarkZ" -> handLandmarkZ(handNumber, landmarkArg)
      [] block = "handLandmarkRelativeX" -> handLandmarkRelativeX(handNumber, landmarkArg)
      [] block = "handLandmarkRelativeY" -> handLandmarkRelativeY(handNumber, landmarkArg)
      [] block = "handLandmarkRelativeZ" -> handLandmarkRelativeZ(handNumber, landmarkArg)

\* the block indexes handednesses, landmarks or worldLandmarks with a hand
\* index that passed the range checks and is no array index: the element is
\* undefined, and reading [0] or [landmarkIndex] of it throws a TypeError
Throws(block, handNumber, landmarkArg) ==
    /\ block # "numberOfHands"
    /\ handNumber.kind = "half"
    /\ ~NoHandednesses
    /\ HandIndex(handNumber) >= 0
    /\ HandIndex(handNumber) < Len(hands.handednesses)
    /\ \/ block = "handedness"
       \/ ToNumber(landmarkArg) >= 0 /\ ToNumber(landmarkArg) <= LastLandmark

\* a query block runs: it reads this.hands and changes nothing
queryBlock(block, handNumber, landmarkArg) ==
    /\ handler' = block
    /\ asked' = [hand |-> handNumber, landmark |-> landmarkArg]
    /\ UNCHANGED landmarker
    /\ IF Throws(block, handNumber, landmarkArg)
       THEN /\ calls' = {"TypeError"}
            /\ returned' = NoReturn
       ELSE /\ calls' = {}
            /\ returned' = Answer(block, handNumber, landmarkArg)
    /\ UNCHANGED <<loopVars, videoVars, oneShot>>

\* ------------------------------------------------------------------ video
\* videoToggle({VIDEO_STATE})
videoToggle(state) ==
    /\ handler' = "videoToggle"
    /\ asked' = NoQuery
    /\ UNCHANGED landmarker
    /\ stage' = SetGlobalVideoState(state)
    /\ IF state = VideoState.OFF
       THEN /\ videoOn' = FALSE
            /\ calls' = {"disableVideo"}
            /\ UNCHANGED mirror
       ELSE /\ videoOn' = TRUE
            /\ mirror' = (state = VideoState.ON)
            /\ calls' = {"enableVideo"}
    /\ returned' = NoReturn
    /\ UNCHANGED <<loopVars, oneShot, ghost>>

\* block.globalVideoState = state
assignGlobalVideoState(state) ==
    /\ handler' = "assignGlobalVideoState"
    /\ asked' = NoQuery
    /\ UNCHANGED landmarker
    /\ stage' = SetGlobalVideoState(state)
    /\ calls' = {}
    /\ returned' = NoReturn
    /\ UNCHANGED <<loopVars, videoOn, mirror, ghost, oneShot>>

\* block.globalVideoTransparency = transparency
assignGlobalVideoTransparency(transparency) ==
    /\ handler' = "assignGlobalVideoTransparency"
    /\ asked' = NoQuery
    /\ UNCHANGED landmarker
    /\ stage' = SetGlobalVideoTransparency(stage, transparency)
    /\ calls' = {}
    /\ returned' = NoReturn
    /\ UNCHANGED <<loopVars, videoOn, mirror, ghost, oneShot>>

\* setVideoTransparency that leaves the device alone
setVideoTransparency_noGhost(transparencyArg) ==
    /\ handler' = "setVideoTransparency"
    /\ asked' = NoQuery
    /\ UNCHANGED landmarker
    /\ stage' = SetGlobalVideoTransparency(stage, ToNumber(transparencyArg))
    /\ calls' = {}
    /\ returned' = NoReturn
    /\ UNCHANGED <<loopVars, videoOn, mirror, ghost, oneShot>>

\* setVideoTransparency({TRANSPARENCY})
setVideoTransparency(transparencyArg) ==
    /\ handler' = "setVideoTransparency"
    /\ asked' = NoQuery
    /\ UNCHANGED landmarker
    /\ LET transparency == ToNumber(transparencyArg)
       IN  /\ stage' = SetGlobalVideoTransparency(stage, transparency)
           /\ ghost' = transparency
    /\ calls' = {"setPreviewGhost"}
    /\ returned' = NoReturn
    /\ UNCHANGED <<loopVars, videoOn, mirror, oneShot>>

\* updateVideoDisplay applying the transparency only
updateVideoDisplay_skipsState ==
    /\ handler' = "updateVideoDisplay"
    /\ asked' = NoQuery
    /\ UNCHANGED landmarker
    /\ stage' = SetGlobalVideoTransparency(stage, globalVideoTransparency)
    /\ ghost' = globalVideoTransparency
    /\ calls' = {"setPreviewGhost"}
    /\ returned' = NoReturn
    /\ UNCHANGED <<loopVars, videoOn, mirror, oneShot>>

\* updateVideoDisplay(): setVideoTransparency with the stored transparency,
\* then videoToggle with the stored state
updateVideoDisplay ==
    /\ handler' = "updateVideoDisplay"
    /\ asked' = NoQuery
    /\ UNCHANGED landmarker
    /\ LET transparency == globalVideoTransparency
           afterGhost == SetGlobalVideoTransparency(stage, transparency)
           state == IF afterGhost.present THEN afterGhost.videoState ELSE VideoState.OFF
       IN  /\ ghost' = transparency
           /\ stage' = IF afterGhost.present
                       THEN [afterGhost EXCEPT !.videoState = state]
                       ELSE afterGhost
           /\ IF state = VideoState.OFF
              THEN /\ videoOn' = FALSE
                   /\ calls' = {"setPreviewGhost", "disableVideo"}
                   /\ UNCHANGED mirror
              ELSE /\ videoOn' = TRUE
                   /\ mirror' = (state = VideoState.ON)
                   /\ calls' = {"setPreviewGhost", "enableVideo"}
    /\ returned' = NoReturn
    /\ UNCHANGED <<loopVars, oneShot>>

CameraDirections == {"mirrored", "flipped"}

\* setCameraDirection that goes through the display state
setCameraDirection_viaState(direction) ==
    /\ handler' = "setCameraDirection"
    /\ asked' = NoQuery
    /\ UNCHANGED landmarker
    /\ mirror' = (direction = "mirrored")
    /\ stage' = SetGlobalVideoState(IF direction = "mirrored"
                                    THEN VideoState.ON ELSE VideoState.ON_FLIPPED)
    /\ calls' = {}
    /\ returned' = NoReturn
    /\ UNCHANGED <<loopVars, videoOn, ghost, oneShot>>

\* setCameraDirection({DIRECTION}): the mirror flag of the video device is
\* true for 'mirrored' and false for 'flipped'
setCameraDirection(direction) ==
    /\ handler' = "setCameraDirection"
    /\ asked' = NoQuery
    /\ UNCHANGED landmarker
    /\ mirror' = (direction = "mirrored")
    /\ calls' = {}
    /\ returned' = NoReturn
    /\ UNCHANGED <<loopVars, stage, videoOn, ghost, oneShot>>

\* ------------------------------------------------------ one-shot detection
\* detectHandOnStage(): the promise executor calls renderer.requestSnapshot;
\* a throw of requestSnapshot rejects the promise and .catch resolves it
\* with the error's message
detectHandOnStage(snapshotOk) ==
    /\ handler' = "detectHandOnStage"
    /\ asked' = NoQuery
    /\ UNCHANGED landmarker
    /\ OneShotPending < MaxOneShot
    /\ IF snapshotOk
       THEN /\ oneShot' = [oneShot EXCEPT !["snapshot"] = @ + 1]
            /\ calls' = {"requestSnapshot"}
            /\ returned' = NoReturn
       ELSE /\ calls' = {"requestSnapshot", "console.error"}
            /\ returned' = "snapshot error message"
            /\ UNCHANGED oneShot
    /\ UNCHANGED <<loopVars, videoVars>>

\* the snapshot callback: creates the Image, sets onload and src
snapshotCallback ==
    /\ handler' = "snapshotCallback"
    /\ asked' = NoQuery
    /\ UNCHANGED landmarker
    /\ oneShot["snapshot"] > 0
    /\ oneShot' = [oneShot EXCEPT !["snapshot"] = @ - 1, !["decode"] = @ + 1]
    /\ calls' = {}
    /\ returned' = NoReturn
    /\ UNCHANGED <<loopVars, videoVars>>

\* image.onload up to `await detect(imageData)`; when drawing on the canvas
\* throws, the async handler rejects and nothing settles the promise
imageOnload(canvasOk) ==
    /\ handler' = "imageOnload"
    /\ asked' = NoQuery
    /\ UNCHANGED landmarker
    /\ oneShot["decode"] > 0
    /\ IF canvasOk
       THEN /\ oneShot' = [oneShot EXCEPT !["decode"] = @ - 1, !["detect"] = @ + 1]
            /\ calls' = {"detect"}
       ELSE /\ oneShot' = [oneShot EXCEPT !["decode"] = @ - 1]
            /\ calls' = {"unhandledRejection"}
    /\ returned' = NoReturn
    /\ UNCHANGED <<loopVars, videoVars>>

\* the image fails to load: no onerror handler is set, nothing happens
imageError ==
    /\ handler' = "imageError"
    /\ asked' = NoQuery
    /\ UNCHANGED landmarker
    /\ oneShot["decode"] > 0
    /\ oneShot' = [oneShot EXCEPT !["decode"] = @ - 1]
    /\ calls' = {}
    /\ returned' = NoReturn
    /\ UNCHANGED <<loopVars, videoVars>>

\* image.onload writing the cache only when no result is cached
stageDetectResolved_keepsExisting(result) ==
    /\ handler' = "stageDetectResolved"
    /\ asked' = NoQuery
    /\ UNCHANGED landmarker
    /\ oneShot["detect"] > 0
    /\ oneShot' = [oneShot EXCEPT !["detect"] = @ - 1]
    /\ hands' = IF hands.kind = "result" THEN hands ELSE result
    /\ calls' = {}
    /\ returned' = "Hand detected"
    /\ UNCHANGED <<handDetecting, detectionInterval, detectionIntervalTime, timers, loopCalls, videoVars>>

\* image.onload storing only a result that has a hand, as the loop does
stageDetectResolved_normalises(result) ==
    /\ handler' = "stageDetectResolved"
    /\ asked' = NoQuery
    /\ UNCHANGED landmarker
    /\ oneShot["detect"] > 0
    /\ oneShot' = [oneShot EXCEPT !["detect"] = @ - 1]
    /\ hands' = IF Len(result.handednesses) = 0 THEN NullHands ELSE result
    /\ calls' = {}
    /\ returned' = "Hand detected"
    /\ UNCHANGED <<handDetecting, detectionInterval, detectionIntervalTime, timers, loopCalls, videoVars>>

\* image.onload after `await detect(imageData)` returned result
stageDetectResolved(result) ==
    /\ handler' = "stageDetectResolved"
    /\ asked' = NoQuery
    /\ UNCHANGED landmarker
    /\ oneShot["detect"] > 0
    /\ oneShot' = [oneShot EXCEPT !["detect"] = @ - 1]
    /\ hands' = result
    /\ calls' = {}
    /\ returned' = "Hand detected"
    /\ UNCHANGED <<handDetecting, detectionInterval, detectionIntervalTime, timers, loopCalls, videoVars>>

\* image.onload after `await detect(imageData)` threw: the async handler
\* rejects, outside of the promise that .catch guards
stageDetectRejected ==
    /\ handler' = "stageDetectRejected"
    /\ asked' = NoQuery
    /\ UNCHANGED landmarker
    /\ oneShot["detect"] > 0
    /\ oneShot' = [oneShot EXCEPT !["detect"] = @ - 1]
    /\ calls' = {"unhandledRejection"}
    /\ returned' = NoReturn
    /\ UNCHANGED <<loopVars, videoVars>>

\* detectFromNamedImage handing a missing image to the detector all the same
detectHandInCostume_detectsAnyway(found) ==
    /\ handler' = "detectHandInCostume"
    /\ asked' = NoQuery
    /\ UNCHANGED landmarker
    /\ OneShotPending < MaxOneShot
    /\ oneShot' = [oneShot EXCEPT !["costume"] = @ + 1]
    /\ calls' = {"detect"}
    /\ returned' = NoReturn
    /\ UNCHANGED <<loopVars, videoVars>>

\* detectFromNamedImage(name, target): a name that resolves to no image
\* answers the "not found" literal without a detector call; a found image is
\* converted, decoded and handed to the detector
detectHandInCostume(found) ==
    /\ handler' = "detectHandInCostume"
    /\ asked' = NoQuery
    /\ UNCHANGED landmarker
    /\ OneShotPending < MaxOneShot
    /\ IF found
       THEN /\ oneShot' = [oneShot EXCEPT !["costume"] = @ + 1]
            /\ calls' = {"detect"}
            /\ returned' = NoReturn
       ELSE /\ calls' = {}
            /\ returned' = "Costume not found"
            /\ UNCHANGED oneShot
    /\ UNCHANGED <<loopVars, videoVars>>

\* the detector call on the named image returned result
costumeDetectResolved(result) ==
    /\ handler' = "costumeDetectResolved"
    /\ asked' = NoQuery
    /\ UNCHANGED landmarker
    /\ oneShot["costume"] > 0
    /\ oneShot' = [oneShot EXCEPT !["costume"] = @ - 1]
    /\ hands' = result
    /\ calls' = {}
    /\ returned' = "Hand detected"
    /\ UNCHANGED <<handDetecting, detectionInterval, detectionIntervalTime, timers, loopCalls, videoVars>>

\* -------------------------------------------------------- configuration
\* getModelPath()
getModelPath == modelAssetPath

ModelPathSet == "Model asset path set successfully"
ReinitErrorMessage == "reinitialization error message"

\* setModelPath({PATH}) up to the promise it returns
setModelPath(pathArg) ==
    /\ handler' = "setModelPath"
    /\ asked' = NoQuery
    /\ LET path == Trim(pathArg)
       IN  IF path = <<>>
           THEN /\ returned' = NoReturn
                /\ calls' = {}
                /\ UNCHANGED landmarker
           ELSE /\ Reinits < MaxReinit
                /\ landmarker' = SetModelAssetPath(path)
                /\ calls' = {"setModelAssetPath"}
                /\ returned' = Pending
    /\ UNCHANGED <<loopVars, videoVars, oneShot>>

\* the k-th pending createImageHandLandmarker() resolves: setModelAssetPath
\* assigns handLandmarker and .then gives the success message
setModelPathResolved(k) ==
    /\ handler' = "setModelPathResolved"
    /\ asked' = NoQuery
    /\ k \in 1..Len(landmarker.creating)
    /\ landmarker' = [landmarker EXCEPT !.handLandmarker = landmarker.creating[k],
                                        !.creating = Remove(@, k)]
    /\ calls' = {}
    /\ returned' = ModelPathSet
    /\ UNCHANGED <<loopVars, videoVars, oneShot>>

\* a failed reinitialisation that leaves the module without a landmarker
setModelPathRejected_dropsLandmarker(k) ==
    /\ handler' = "setModelPathRejected"
    /\ asked' = NoQuery
    /\ k \in 1..Len(landmarker.creating)
    /\ landmarker' = [landmarker EXCEPT !.handLandmarker = <<>>,
                                        !.creating = Remove(@, k)]
    /\ calls' = {"console.error"}
    /\ returned' = ReinitErrorMessage
    /\ UNCHANGED <<loopVars, videoVars, oneShot>>

\* a failed reinitialisation whose rejection reaches the caller
setModelPathRejected_propagates(k) ==
    /\ handler' = "setModelPathRejected"
    /\ asked' = NoQuery
    /\ k \in 1..Len(landmarker.creating)
    /\ landmarker' = [landmarker EXCEPT !.creating = Remove(@, k)]
    /\ calls' = {"unhandledRejection"}
    /\ returned' = NoReturn
    /\ UNCHANGED <<loopVars, videoVars, oneShot>>

\* the k-th pending createImageHandLandmarker() rejects: handLandmarker is
\* not assigned and .catch logs and gives the error's message
setModelPathRejected(k) ==
    /\ handler' = "setModelPathRejected"
    /\ asked' = NoQuery
    /\ k \in 1..Len(landmarker.creating)
    /\ landmarker' = [landmarker EXCEPT !.creating = Remove(@, k)]
    /\ calls' = {"console.error"}
    /\ returned' = ReinitErrorMessage
    /\ UNCHANGED <<loopVars, videoVars, oneShot>>

\* hand-landmarker.js getNumHands()
getNumHands == numHands

\* hand-landmarker.js setNumHands(num) forgetting the number
SetNumHands_notStored(num) ==
    [landmarker EXCEPT !.configuring = Append(@, num)]

\* hand-landmarker.js setNumHands(num) up to its await
SetNumHands(num) ==
    [landmarker EXCEPT !.numHands = num, !.configuring = Append(@, num)]

NumHandsSet == "Number of hands set successfully"

\* the setNumHands block: a number below 1 is ignored, another one is handed
\* to hand-landmarker.js
setNumHands(numArg) ==
    /\ handler' = "setNumHands"
    /\ asked' = NoQuery
    /\ IF ToNumber(numArg) < 1
       THEN /\ returned' = NoReturn
            /\ calls' = {}
            /\ UNCHANGED landmarker
       ELSE /\ Reinits < MaxReinit
            /\ landmarker' = SetNumHands(ToNumber(numArg))
            /\ calls' = {"setOptions"}
            /\ returned' = Pending
    /\ UNCHANGED <<loopVars, videoVars, oneShot>>

\* the k-th pending setOptions() resolves
setNumHandsResolved(k) ==
    /\ handler' = "setNumHandsResolved"
    /\ asked' = NoQuery
    /\ k \in 1..Len(landmarker.configuring)
    /\ landmarker' = [landmarker EXCEPT !.configuring = Remove(@, k)]
    /\ calls' = {}
    /\ returned' = NumHandsSet
    /\ UNCHANGED <<loopVars, videoVars, oneShot>>

\* the detection loop and its blocks
NextLoop ==
    \/ startHandDetection
    \/ \E t \in timers, frame \in BOOLEAN : detectFrame(t, frame)
    \/ \E r \in DetectorResults : detectFrameResolved(r)
    \/ detectFrameRejected
    \/ stopHandDetection
    \/ \E a \in TimeInputs : setDetectionIntervalTime(a)

\* a pending timer fires
TimerFires == \E t \in timers, frame \in BOOLEAN : detectFrame(t, frame)

\* a pending loop detector call settles
LoopCallSettles == (\E r \in DetectorResults : detectFrameResolved(r)) \/ detectFrameRejected

\* the query blocks
NextQuery ==
    \E b \in QueryBlocks, h \in HandNumberArgs, i \in LandmarkArgs : queryBlock(b, h, i)

\* the video blocks
NextVideo ==
    \E s \in VideoStates : videoToggle(s)

\* the one-shot detection and its callbacks
NextOneShot ==
    \/ \E ok \in BOOLEAN : detectHandOnStage(ok)
    \/ snapshotCallback
    \/ \E ok \in BOOLEAN : imageOnload(ok)
    \/ imageError
    \/ \E r \in DetectorResults : stageDetectResolved(r)
    \/ stageDetectRejected

\* the named-image detection and its continuation
NextNamedImage ==
    \/ \E found \in BOOLEAN : detectHandInCostume(found)
    \/ \E r \in DetectorResults : costumeDetectResolved(r)

\* the loop running and stopping, without the interval block
NextLoopCycle ==
    \/ startHandDetection
    \/ TimerFires
    \/ LoopCallSettles
    \/ stopHandDetection

\* the display proxies, the transparency and camera blocks, the sync
NextDisplay ==
    \/ \E s \in VideoStates : assignGlobalVideoState(s)
    \/ \E a \in TransparencyInputs : assignGlobalVideoTransparency(ToNumber(a))
    \/ \E a \in TransparencyInputs : setVideoTransparency(a)
    \/ updateVideoDisplay
    \/ \E dir \in CameraDirections : setCameraDirection(dir)

\* the configuration blocks and the settling of what they started
NextConfig ==
    \/ \E p \in PathInputs : setModelPath(p)
    \/ \E k \in 1..MaxReinit : setModelPathResolved(k)
    \/ \E k \in 1..MaxReinit : setModelPathRejected(k)
    \/ \E n \in NumHandsInputs : setNumHands(n)
    \/ \E k \in 1..MaxReinit : setNumHandsResolved(k)

Next == NextLoop \/ NextVideo \/ NextOneShot

\* every block of the extension, in any order
Spec == Init /\ [][Next]_vars

\* the detection loop alone: start, stop, cycles, settlements, interval
SpecLoop == Init /\ [][NextLoop]_vars

\* the detection loop with the scheduling the event loop gives: a timer that
\* is due fires, and every detector call settles
SpecLoopFair == SpecLoop /\ WF_vars(TimerFires) /\ WF_vars(LoopCallSettles)

\* the one-shot detections next to a loop that starts, cycles and stops
SpecOneShot == Init /\ [][NextLoopCycle \/ NextOneShot \/ NextNamedImage]_vars

\* start and stop among the blocks that set the configuration
NextSession ==
    \/ startHandDetection
    \/ stopHandDetection
    \/ \E a \in TimeInputs : setDetectionIntervalTime(a)
    \/ \E p \in PathInputs : setModelPath(p)
    \/ \E n \in NumHandsInputs : setNumHands(n)
    \/ \E a \in TransparencyInputs : setVideoTransparency(a)

\* a session started and stopped while its configuration is being set
SpecSession == Init /\ [][NextSession]_vars

\* the video blocks and the display proxies
SpecVideo == Init /\ [][NextVideo \/ NextDisplay]_vars

\* the model path and the number of hands being set
SpecConfig == Init /\ [][NextConfig]_vars

\* a controller whose cache holds any of the values it can take
InitQuery ==
    /\ handDetecting = FALSE
    /\ hands \in CacheValues
    /\ detectionInterval = 0
    /\ detectionIntervalTime = DefaultIntervalTime
    /\ timers = {}
    /\ loopCalls = 0
    /\ stage = NoStage
    /\ videoOn = FALSE
    /\ mirror = FALSE
    /\ ghost = 0
    /\ landmarker = [modelAssetPath |-> DefaultModelAssetPath,
                     numHands |-> DefaultNumHands,
                     handLandmarker |-> DefaultModelAssetPath,
                     creating |-> <<>>,
                     configuring |-> <<>>]
    /\ oneShot = [s \in OneShotStages |-> 0]
    /\ handler = "constructor"
    /\ calls = {}
    /\ returned = NoReturn
    /\ asked = NoQuery

\* the query blocks asked on every cache content
SpecQuery == InitQuery /\ [][NextQuery]_vars

\* ------------------------------------------------- costume-util.js lookup
\* a string is the sequence of its characters; the two characters below
\* stand for a full-width digit two and for one of the long dashes
FullWidthTwo == "full-width 2"
LongDash == "long dash"

DigitChars == <<"0", "1", "2", "3", "4", "5", "6", "7", "8", "9">>
IsDigit(c) == \E k \in 1..Len(DigitChars) : DigitChars[k] = c
DigitValue(c) == (CHOOSE k \in 1..Len(DigitChars) : DigitChars[k] = c) - 1

\* convertToHalfWidthInt: full-width digits become ASCII digits and the dash
\* variants become '-'
convertToHalfWidthInt(str) ==
    [k \in 1..Len(str) |->
        IF str[k] = FullWidthTwo THEN "2"
        ELSE IF str[k] = LongDash THEN "-"
        ELSE str[k]]

\* the longest prefix of s made of digits
RECURSIVE DigitPrefix(_)
DigitPrefix(s) ==
    IF s # <<>> /\ IsDigit(Head(s)) THEN <<Head(s)>> \o DigitPrefix(Tail(s)) ELSE <<>>

\* the value of a sequence of digits
RECURSIVE Decimal(_)
Decimal(ds) ==
    IF ds = <<>> THEN 0
    ELSE Radix * Decimal(SubSeq(ds, 1, Len(ds) - 1)) + DigitValue(ds[Len(ds)])

\* parseInt(str, 10): skips leading white space, takes a sign and then the
\* digits up to the first other character; NaN when there is no digit
parseInt(str) ==
    LET s == TrimStart(str)
        signed == s # <<>> /\ Head(s) \in {"-", "+"}
        negative == s # <<>> /\ Head(s) = "-"
        ds == DigitPrefix(IF signed THEN Tail(s) ELSE s)
    IN  IF ds = <<>> THEN NotANumber
        ELSE Num(IF negative THEN 0 - Decimal(ds) ELSE Decimal(ds))

Null == [kind |-> "null"]
Undefined == [kind |-> "undefined"]

\* convertToZeroBaseIndex without `if (index > length) return length - 1`
convertToZeroBaseIndex_noClamp(index, length) ==
    IF length = 0 THEN Undefined
    ELSE IF index < 0
         THEN (IF length + index < 0 THEN Num(0) ELSE Num(length + index))
         ELSE Num(index - 1)

\* convertToZeroBaseIndex(index, length)
convertToZeroBaseIndex(index, length) ==
    IF length = 0 THEN Undefined
    ELSE IF index > length THEN Num(length - 1)
    ELSE IF index < 0
         THEN (IF length + index < 0 THEN Num(0) ELSE Num(length + index))
         ELSE Num(index - 1)

\* costumeArray.findIndex(c => c.name === costumeName), -1 when none matches
FindIndex(costumeArray, costumeName) ==
    IF \E k \in 1..Len(costumeArray) : costumeArray[k] = costumeName
    THEN (CHOOSE k \in 1..Len(costumeArray) :
            /\ costumeArray[k] = costumeName
            /\ \A j \in 1..(k - 1) : costumeArray[j] # costumeName) - 1
    ELSE 0 - 1

\* what getCostumeIndexByNameOrNumber(target, costumeName) returns, the
\* target's costumes given by their names
CostumeIndexByNameOrNumber(costumeArray, costumeName) ==
    LET costumeIndex == FindIndex(costumeArray, costumeName)
        costumeNumber == parseInt(convertToHalfWidthInt(costumeName))
    IN  IF costumeIndex = 0 - 1
        THEN IF costumeNumber.kind = "nan" \/ costumeNumber.v = 0
             THEN Null
             ELSE convertToZeroBaseIndex(costumeNumber.v, Len(costumeArray))
        ELSE Num(costumeIndex)

\* names the target's costumes have, and the costume lists of a target
CostumeNames == {<<"a">>, <<"2">>}
CostumeArrays == UNION {[1..n -> CostumeNames] : n \in 0..MaxCostumes}

\* names a costume is asked for by
CostumeNameInputs ==
    CostumeNames \cup
        {<<>>, <<"b">>, <<"-", "1">>, <<"0">>, <<"-", "0">>, <<"1">>, <<"3">>, <<"9">>, <<"1", "2">>,
         <<"-", "2">>, <<"-", "9">>, <<"1", "a">>, <<"-">>, <<" ", "3">>,
         <<FullWidthTwo>>, <<LongDash, "3">>}

\* getCostumeIndexByNameOrNumber(target, costumeName) is called
getCostumeIndexByNameOrNumber(costumeArray, costumeName) ==
    /\ handler' = "getCostumeIndexByNameOrNumber"
    /\ asked' = [target |-> costumeArray, costumeName |-> costumeName]
    /\ UNCHANGED landmarker
    /\ calls' = {"getCostumes"}
    /\ returned' = CostumeIndexByNameOrNumber(costumeArray, costumeName)
    /\ UNCHANGED <<loopVars, videoVars, oneShot>>

NextCostume ==
    \E costumeArray \in CostumeArrays, costumeName \in CostumeNameInputs :
        getCostumeIndexByNameOrNumber(costumeArray, costumeName)

\* the costume lookup on every costume list and name
SpecCostume == Init /\ [][NextCostume]_vars

\* ================================================================= claims

\* C1: at most one detector invocation issued by the detection loop is in
\* flight at any time, whatever the order of start(), stop() and settlements.
C1_AtMostOneLoopCallInFlight == loopCalls <= 1

\* C2: a loop detector call that settles successfully after stop() (running
\* is false) is discarded: the cache stop() emptied stays empty.
C2_ResultAfterStopDiscarded ==
    [][(/\ ~handDetecting
        /\ hands = EmptyArray
        /\ \E r \in DetectorResults : detectFrameResolved(r))
            => EmptyAnswers']_vars

\* C3: right after stop() returns, whatever the cache held, numberOfHands()
\* is 0, handedness(h) is " " and all six landmark queries return 0.
C3_QueriesEmptyAfterStop ==
    [][stopHandDetection => EmptyAnswers']_vars

C3_Witness ==
    /\ handler = "stopHandDetection"
    /\ hands = EmptyArray
    /\ loopCalls > 0

\* C4: while running is false, a cycle that fires ends without fetching a
\* frame, calling the detector or scheduling a cycle, and no step that leaves
\* running false starts a loop detector call.
C4_NoNewCycleWhileStopped ==
    [][/\ \A t \in timers, f \in BOOLEAN :
            (~handDetecting /\ detectFrame(t, f)) =>
                /\ calls' = {}
                /\ loopCalls' = loopCalls
                /\ timers' = timers \ {t}
       /\ (~handDetecting /\ ~handDetecting') => loopCalls' <= loopCalls]_vars

C4_Witness ==
    /\ handler = "detectFrame"
    /\ ~handDetecting
    /\ calls = {}

C6_SecondStartDoesNotEnableVideo ==
    [][(handDetecting /\ stage.present /\ startHandDetection)
        => "enableVideo" \notin calls']_vars

\* C7: start() while not running with the shared display state "off" sets
\* the shared display state to "on", enables the video and sets mirror true.
C7_StartTurnsDisplayStateOn ==
    [][(/\ ~handDetecting
        /\ stage.present
        /\ globalVideoState = VideoState.OFF
        /\ startHandDetection) =>
            /\ globalVideoState' = VideoState.ON
            /\ videoOn'
            /\ mirror']_vars

\* C8: isHandDetecting() is false at construction, true after every start()
\* and false after every stop(), and nothing else changes it; start() runs no
\* detector call itself, it only schedules the first cycle after
\* detectionIntervalTime.
C8_RunningFollowsStartStop ==
    /\ ~isHandDetecting
    /\ [][/\ startHandDetection =>
                /\ isHandDetecting'
                /\ loopCalls' = loopCalls
                /\ "detect" \notin calls'
                /\ "getFrame" \notin calls'
                /\ ~handDetecting =>
                    /\ timers' \ timers = {[id |-> detectionInterval', delay |-> detectionIntervalTime]}
                    /\ timers \subseteq timers'
          /\ stopHandDetection => ~isHandDetecting'
          /\ isHandDetecting' # isHandDetecting =>
                handler' \in {"startHandDetection", "stopHandDetection"}]_vars

C8_Witness ==
    /\ handler = "startHandDetection"
    /\ isHandDetecting
    /\ "setTimeout" \in calls
    /\ detectionIntervalTime = 200
    /\ \E t \in timers : t.id = detectionInterval /\ t.delay = 200

\* C9: a loop detector call that succeeds while running replaces the cache
\* by the result when it has at least one hand, and empties the cache
\* (numberOfHands() = 0) when it has none, whatever the cache held.
C9_LoopSuccessCommitsResult ==
    [][\A r \in DetectorResults :
        (handDetecting /\ detectFrameResolved(r)) =>
            IF Len(r.handednesses) >= 1
            THEN hands' = r /\ numberOfHands' = Len(r.handednesses)
            ELSE numberOfHands' = 0 /\ EmptyAnswers']_vars

C9_Witness ==
    /\ handler = "detectFrameResolved"
    /\ handDetecting
    /\ numberOfHands = MaxResultHands

\* C10: a loop detector call that fails leaves the cache and running as they
\* were, and the error reaches no caller: nothing is returned and no
\* rejection is left unhandled.
C10_LoopFailureKeepsCache ==
    [][detectFrameRejected =>
        /\ hands' = hands
        /\ handDetecting' = handDetecting
        /\ returned' = NoReturn
        /\ "unhandledRejection" \notin calls']_vars

C10_Witness ==
    /\ handler = "detectFrameRejected"
    /\ handDetecting
    /\ numberOfHands > 0

\* C11: while running, every completed cycle (success, failure, no frame)
\* schedules exactly one next cycle; and when running stays true and detector
\* calls settle, a cycle starts again and again.
C11_EveryCycleReschedules ==
    /\ [][(handDetecting /\ (LoopCallSettles \/ \E t \in timers : detectFrame(t, FALSE))) =>
            /\ "setTimeout" \in calls'
            /\ Chains' = Chains
            /\ \E t \in timers' : t.id = detectionInterval' /\ t.delay = detectionIntervalTime
            /\ Cardinality(timers') =
                 Cardinality(timers) + (IF loopCalls' < loopCalls THEN 1 ELSE 0)]_vars
    /\ (<>[]handDetecting) => []<><<TimerFires>>_vars

C11_Witness ==
    /\ handler = "detectFrameRejected"
    /\ handDetecting
    /\ "setTimeout" \in calls
    /\ Chains = 1

\* C12: a cycle in which the video device returns no frame does not call the
\* detector, leaves the cache as it was and schedules the next cycle.
C12_NoFrameSkipsDetector ==
    [][\A t \in timers : (handDetecting /\ detectFrame(t, FALSE)) =>
        /\ "detect" \notin calls'
        /\ loopCalls' = loopCalls
        /\ hands' = hands
        /\ "setTimeout" \in calls'
        /\ \E n \in timers' : n.id = detectionInterval' /\ n.delay = detectionIntervalTime]_vars

C12_Witness ==
    /\ handler = "detectFrame"
    /\ calls = {"getFrame", "setTimeout"}
    /\ numberOfHands > 0

\* C13: getDetectionIntervalTime() is 100 at construction and max(0, t)
\* after setDetectionIntervalTime(t); it is never negative and nothing else
\* changes it.
C13_IntervalClamped ==
    /\ getDetectionIntervalTime = 100
    /\ [](getDetectionIntervalTime >= 0)
    /\ [][/\ \A a \in TimeInputs : (a.kind = "num" /\ setDetectionIntervalTime(a)) =>
                getDetectionIntervalTime' = (IF a.v < 0 THEN 0 ELSE a.v)
          /\ getDetectionIntervalTime' # getDetectionIntervalTime =>
                handler' = "setDetectionIntervalTime"]_vars

C13_Witness ==
    /\ handler = "setDetectionIntervalTime"
    /\ getDetectionIntervalTime = 0
    /\ \E t \in timers : t.delay = 200

\* C14: setDetectionIntervalTime(t) leaves the delay of every pending cycle
\* as it is; each cycle scheduled afterwards uses the value current when it is
\* scheduled.
C14_IntervalAppliesToNextCycle ==
    [][/\ (\E a \in TimeInputs : setDetectionIntervalTime(a)) => timers' = timers
       /\ "setTimeout" \in calls' =>
            \E t \in timers' : t.id = detectionInterval' /\ t.delay = detectionIntervalTime']_vars

C14_Witness ==
    /\ handler = "setDetectionIntervalTime"
    /\ detectionIntervalTime = 200
    /\ \E t \in timers : t.delay = DefaultIntervalTime

\* the last query was asked with a hand number outside [1, numberOfHands()]
AskedHandOutside ==
    IF asked.hand.kind = "half"
    THEN asked.hand.v < 1 \/ asked.hand.v >= numberOfHands
    ELSE ToNumber(asked.hand) < 1 \/ ToNumber(asked.hand) > numberOfHands

\* the last query was asked with the number of a cached hand
AskedHand == ToNumber(asked.hand)
AskedHandValid == asked.hand.kind = "num" /\ AskedHand >= 1 /\ AskedHand <= numberOfHands

\* the last query was asked with the index of a landmark
AskedLandmark == ToNumber(asked.landmark)
AskedLandmarkValid == AskedLandmark >= 0 /\ AskedLandmark <= 20

\* C15: for a hand number outside [1, numberOfHands()] handedness answers " "
\* and the six landmark queries answer 0; for the number of a cached hand and
\* a landmark index outside [0, 20] the six landmark queries answer 0.
C15_OutOfRangeAnswers ==
    /\ (handler = "handedness" /\ AskedHandOutside) =>
            "TypeError" \notin calls /\ returned = " "
    /\ (handler \in LandmarkBlocks \cup RelativeLandmarkBlocks
            /\ (AskedHandOutside \/ (AskedHandValid /\ ~AskedLandmarkValid))) =>
            "TypeError" \notin calls /\ returned = 0

C17_RelativeCoordinates ==
    (handler \in RelativeLandmarkBlocks /\ AskedHandValid /\ AskedLandmarkValid) =>
        LET lm == hands.worldLandmarks[AskedHand][AskedLandmark + 1]
        IN  /\ handler = "handLandmarkRelativeX" => returned = lm.x
            /\ handler = "handLandmarkRelativeY" => returned + lm.y = 0
            /\ handler = "handLandmarkRelativeZ" => returned = lm.z

C17_Witness ==
    /\ handler = "handLandmarkRelativeY"
    /\ asked = [hand |-> Num(2), landmark |-> Num(LastLandmark)]
    /\ AskedHandValid
    /\ returned > 0
    /\ hands.landmarks[2][LastLandmark + 1].y # hands.worldLandmarks[2][LastLandmark + 1].y

\* C18: numberOfHands() is the length of the cached handedness sequence, 0
\* when the cache is empty; handedness(n) for n in [1, numberOfHands()] is the
\* label of the n-th cached hand.
C18_CountAndHandedness ==
    /\ handler = "numberOfHands" =>
        returned = (IF hands \in DetectorResults THEN Len(hands.handednesses) ELSE 0)
    /\ (handler = "handedness" /\ hands \in DetectorResults
            /\ AskedHand >= 1 /\ AskedHand <= Len(hands.handednesses)) =>
        /\ returned = hands.handednesses[AskedHand]
        /\ returned = (IF AskedHand % 2 = 1 THEN "Right" ELSE "Left")

C18_Witness ==
    /\ handler = "handedness"
    /\ asked.hand = Num(2)
    /\ returned = "Left"

\* a one-shot detection succeeds: the detector call it made returns result
OneShotSucceeds(result) == stageDetectResolved(result) \/ costumeDetectResolved(result)

\* C19: a one-shot detection (display snapshot or found named image) that
\* succeeds, with the loop running or stopped, replaces the whole cache by the
\* detector's result, resolves with 'Hand detected' and changes neither
\* running nor the loop's timers, handle, interval or in-flight calls.
C19_OneShotSuccessReplacesCache ==
    [][\A r \in DetectorResults : OneShotSucceeds(r) =>
        /\ hands' = r
        /\ numberOfHands' = Len(r.handednesses)
        /\ returned' = "Hand detected"
        /\ UNCHANGED <<handDetecting, timers, detectionInterval, detectionIntervalTime, loopCalls>>
        /\ "setTimeout" \notin calls']_vars

C19_Witness ==
    /\ handler = "stageDetectResolved"
    /\ returned = "Hand detected"
    /\ handDetecting
    /\ loopCalls = 1
    /\ hands = MakeResult(0)

\* C20: detectFromDisplaySnapshot() always resolves: when the snapshot
\* request, the image decoding or the detector call fails, the promise
\* resolves with the failure's message; no rejection escapes and no step
\* leaves the promise without anything that will settle it.
C20_SnapshotDetectionAlwaysResolves ==
    [][(\/ detectHandOnStage(FALSE)
        \/ imageOnload(FALSE)
        \/ imageError
        \/ stageDetectRejected) =>
            /\ returned' # NoReturn
            /\ "unhandledRejection" \notin calls']_vars

\* C21: detectFromNamedImage with a name that resolves to no image returns
\* 'Costume not found', starts no detector call and leaves the cache as it
\* was.
C21_MissingImageNotFound ==
    [][detectHandInCostume(FALSE) =>
        /\ returned' = "Costume not found"
        /\ "detect" \notin calls'
        /\ oneShot' = oneShot
        /\ loopCalls' = loopCalls
        /\ hands' = hands]_vars

C21_Witness ==
    /\ handler = "detectHandInCostume"
    /\ returned = "Costume not found"
    /\ numberOfHands > 0

\* the characters of p are all white space
Blank(p) == \A i \in 1..Len(p) : p[i] = " "

\* t is p without the white space at its ends
Trimmed(p, t) ==
    \E i, j \in 1..Len(p) :
        /\ t = SubSeq(p, i, j)
        /\ p[i] # " "
        /\ p[j] # " "
        /\ \A k \in 1..Len(p) : (k < i \/ k > j) => p[k] = " "

\* C22: setModelPath(path) whose trimmed value is empty returns nothing
\* (not the success message), leaves getModelPath() as it was and starts no
\* reinitialisation of the detector.
C22_EmptyModelPathIsNoOp ==
    [][\A p \in PathInputs : (Blank(p) /\ setModelPath(p)) =>
        /\ returned' = NoReturn
        /\ returned' # ModelPathSet
        /\ getModelPath' = getModelPath
        /\ "setModelAssetPath" \notin calls'
        /\ landmarker' = landmarker]_vars

C22_Witness ==
    /\ handler = "setModelPath"
    /\ returned = NoReturn
    /\ getModelPath = <<"a">>
    /\ Len(landmarker.creating) = 1

\* C23: right after setModelPath(p) with a non-empty trimmed p,
\* getModelPath() is the trimmed p while the reinitialisation is still
\* pending; nothing else changes getModelPath(), so it always is the last
\* accepted path.
C23_ModelPathIsLastAccepted ==
    /\ getModelPath = DefaultModelAssetPath
    /\ [][/\ \A p \in PathInputs : (~Blank(p) /\ setModelPath(p)) =>
                /\ Trimmed(p, getModelPath')
                /\ landmarker'.creating # <<>>
                /\ handLandmarker' = handLandmarker
          /\ getModelPath' # getModelPath =>
                handler' = "setModelPath" /\ returned' = Pending]_vars

C23_Witness ==
    /\ handler = "setModelPath"
    /\ getModelPath = <<"a">>
    /\ handLandmarker = <<"b">>
    /\ landmarker.creating = <<<<"a">>>>

\* C24: setModelPath(p) with a non-empty trimmed p never rejects: its promise
\* resolves to 'Model asset path set successfully' when the reinitialisation
\* succeeds and to the error's message when it fails.
C24_SetModelPathNeverRejects ==
    [][/\ \A p \in PathInputs : (~Blank(p) /\ setModelPath(p)) => returned' = Pending
       /\ \A k \in 1..MaxReinit :
            /\ setModelPathResolved(k) =>
                returned' = "Model asset path set successfully"
            /\ setModelPathRejected(k) =>
                /\ returned' = ReinitErrorMessage
                /\ "unhandledRejection" \notin calls'
       /\ Len(landmarker'.creating) < Len(landmarker.creating) =>
            returned' \in {"Model asset path set successfully", ReinitErrorMessage}]_vars

C24_Witness ==
    /\ handler = "setModelPathRejected"
    /\ returned = ReinitErrorMessage
    /\ getModelPath # handLandmarker

\* C25: getNumHands() is 4 at first and afterwards the last n >= 1 given to
\* setNumHands; setNumHands(n) with n < 1 returns nothing, leaves
\* getNumHands() as it was and reconfigures nothing; with n >= 1 it resolves
\* to 'Number of hands set successfully'.
C25_NumHands ==
    /\ getNumHands = 4
    /\ [][/\ \A n \in NumHandsInputs : (n.kind = "num" /\ setNumHands(n)) =>
                IF n.v >= 1
                THEN /\ getNumHands' = n.v
                     /\ returned' = Pending
                     /\ "setOptions" \in calls'
                ELSE /\ getNumHands' = getNumHands
                     /\ returned' = NoReturn
                     /\ "setOptions" \notin calls'
                     /\ landmarker' = landmarker
          /\ \A k \in 1..MaxReinit : setNumHandsResolved(k) =>
                returned' = "Number of hands set successfully"
          /\ getNumHands' # getNumHands => handler' = "setNumHands"]_vars

C25_Witness ==
    /\ handler = "setNumHands"
    /\ returned = NoReturn
    /\ getNumHands = 2

\* C26: with a shared display target, the display transparency and state
\* read back what the corresponding set wrote last; without one they read 50
\* and 'off' and the sets change nothing.
C26_DisplayProxies ==
    /\ ~stage.present => (globalVideoTransparency = 50 /\ globalVideoState = "off")
    /\ [][/\ \A s \in VideoStates : assignGlobalVideoState(s) =>
                /\ globalVideoState' = (IF stage.present THEN s ELSE "off")
                /\ globalVideoTransparency' = globalVideoTransparency
                /\ ~stage.present => stage' = stage
          /\ \A v \in {75, 0} : assignGlobalVideoTransparency(v) =>
                /\ globalVideoTransparency' = (IF stage.present THEN v ELSE 50)
                /\ globalVideoState' = globalVideoState
                /\ ~stage.present => stage' = stage
          /\ globalVideoTransparency' # globalVideoTransparency =>
                handler' \in {"assignGlobalVideoTransparency", "setVideoTransparency"}
          /\ globalVideoState' # globalVideoState =>
                handler' \in {"assignGlobalVideoState", "videoToggle"}]_vars

C26_Witness ==
    /\ handler = "assignGlobalVideoTransparency"
    /\ stage.present
    /\ globalVideoTransparency = 75
    /\ globalVideoState = "on-flipped"

\* C27: applyVideoTransparency(v) stores v as a number in the shared display
\* target's transparency and gives the device the ghost value v, so that
\* afterwards the stored transparency equals the device's ghost value.
C27_TransparencyStoredAndApplied ==
    [][\A a \in TransparencyInputs : setVideoTransparency(a) =>
        /\ ghost' = (IF a.kind = "num" THEN a.v ELSE 0)
        /\ globalVideoTransparency' = ghost']_vars

\* C27 as amended: with a shared display target, applyVideoTransparency(v)
\* stores v as a number and gives the device the same ghost value; without
\* one it only gives the device the ghost value and stores nothing.
C27_TransparencyAppliedStoredOnTarget ==
    [][\A a \in TransparencyInputs : setVideoTransparency(a) =>
        /\ ghost' = (IF a.kind = "num" THEN a.v ELSE 0)
        /\ "setPreviewGhost" \in calls'
        /\ stage.present => globalVideoTransparency' = ghost'
        /\ ~stage.present => stage' = stage
        /\ globalVideoState' = globalVideoState]_vars

C27_Witness ==
    /\ handler = "setVideoTransparency"
    /\ stage.present
    /\ ghost = 75
    /\ globalVideoTransparency = 75

\* C28: setCameraDirection('mirrored') sets the device's mirror flag to true
\* and setCameraDirection('flipped') to false, in every display state, and
\* changes neither the shared display state, running nor the cache.
C28_CameraDirectionSetsMirror ==
    [][/\ setCameraDirection("mirrored") => mirror'
       /\ setCameraDirection("flipped") => ~mirror'
       /\ (\E dir \in CameraDirections : setCameraDirection(dir)) =>
            /\ stage' = stage
            /\ handDetecting' = handDetecting
            /\ hands' = hands]_vars

C28_Witness ==
    /\ handler = "setCameraDirection"
    /\ mirror
    /\ videoOn
    /\ globalVideoState = "on-flipped"

\* C29: syncDisplayToDevice() gives the device the stored transparency as
\* ghost value and the stored display state: 'off' disables the video, 'on'
\* enables it mirrored, 'on-flipped' enables it not mirrored; the stored
\* values stay as they are.
C29_SyncAppliesStoredDisplay ==
    [][updateVideoDisplay =>
        /\ ghost' = globalVideoTransparency
        /\ globalVideoState = "off" => (~videoOn' /\ "disableVideo" \in calls')
        /\ globalVideoState = "on" => (videoOn' /\ mirror')
        /\ globalVideoState = "on-flipped" => (videoOn' /\ ~mirror')
        /\ stage' = stage]_vars

C29_Witness ==
    /\ handler = "updateVideoDisplay"
    /\ globalVideoState = "on-flipped"
    /\ ghost = 75
    /\ videoOn
    /\ ~mirror

\* C30: in every reachable state the cache is empty or one whole detector
\* result, whose handedness, landmarks and worldLandmarks sequences have the
\* same length and 21 entries per hand; it never holds parts of two results.
C30_CacheIsEmptyOrWholeResult ==
    \/ hands.kind \in {"null", "array"}
    \/ /\ hands.kind = "result"
       /\ Len(hands.handednesses) = Len(hands.landmarks)
       /\ Len(hands.landmarks) = Len(hands.worldLandmarks)
       /\ \A h \in 1..Len(hands.landmarks) :
            Len(hands.landmarks[h]) = 21 /\ Len(hands.worldLandmarks[h]) = 21
       /\ \E r \in DetectorResults : hands = r

C30_Witness ==
    /\ handler = "detectFrameResolved"
    /\ hands = MakeResult(1)
    /\ oneShot["detect"] = 1
    /\ ~handDetecting

\* a one-shot detector call and a loop detector call are both in flight
BothPending == loopCalls > 0 /\ oneShot["detect"] + oneShot["costume"] > 0

\* C31: when a one-shot detection and a loop cycle are both pending, each
\* settlement replaces the cache by what it commits, whatever the cache
\* held: after the first one queries see that result as a whole, after the
\* second one the cache is what the second committed.
C31_LastWriterWins ==
    [][\A r \in DetectorResults :
        /\ ((BothPending \/ handler \in {"detectFrameResolved", "stageDetectResolved"})
                /\ OneShotSucceeds(r)) =>
            /\ hands' = r
            /\ numberOfHands' = Len(r.handednesses)
        /\ ((BothPending \/ handler \in {"stageDetectResolved", "costumeDetectResolved"})
                /\ loopCalls > 0 /\ detectFrameResolved(r)) =>
            /\ hands' = (IF Len(r.handednesses) >= 1 THEN r ELSE NullHands)
            /\ numberOfHands' = Len(r.handednesses)]_vars

C31_Witness ==
    /\ handler = "stageDetectResolved"
    /\ hands = MakeResult(1)
    /\ loopCalls = 1
    /\ handDetecting

\* C32: stop() changes only running, the pending timer and the cache: the
\* interval, the stored model path, the stored number of hands and the shared
\* display state and transparency are after stop() what they were before.
C32_StopKeepsConfiguration ==
    [][stopHandDetection =>
        /\ getDetectionIntervalTime' = getDetectionIntervalTime
        /\ getModelPath' = getModelPath
        /\ getNumHands' = getNumHands
        /\ globalVideoState' = globalVideoState
        /\ globalVideoTransparency' = globalVideoTransparency
        /\ stage' = stage]_vars

C32_Witness ==
    /\ handler = "stopHandDetection"
    /\ "clearInterval" \in calls
    /\ getDetectionIntervalTime = 200
    /\ getModelPath = <<"a">>
    /\ getNumHands = 2
    /\ globalVideoTransparency = 75

\* C33: stop() right after stop(), or with detection never started, leaves
\* what a single stop() leaves: running false, no timer handle, empty cache,
\* the pending timers and calls as they were; and it raises nothing.
C33_StopIsIdempotent ==
    [][stopHandDetection =>
        /\ ~handDetecting'
        /\ detectionInterval' = 0
        /\ hands' = EmptyArray
        /\ EmptyAnswers'
        /\ "TypeError" \notin calls'
        /\ handler = "stopHandDetection" =>
            UNCHANGED <<handDetecting, detectionInterval, hands, timers, loopCalls,
                        detectionIntervalTime>>
        /\ handler = "constructor" => timers' = {} /\ loopCalls' = 0]_vars

C33_Witness ==
    /\ handler = "stopHandDetection"
    /\ calls = {}
    /\ loopCalls = 1
    /\ hands = EmptyArray

\* C34: whatever the order of start(), stop() and settlements, the live loop
\* continuations (pending cycles plus loop detector calls in flight) number
\* at most one.
C34_AtMostOneLoopContinuation == Chains <= 1

\* C35: whenever running is false no cycle is scheduled: the timer handle is
\* none, also after a call that was in flight at stop() has settled.
C35_StoppedMeansNoTimerHandle == ~handDetecting => detectionInterval = 0

\* the loop at rest: stopped, no cycle scheduled, no loop call in flight
LoopIdle == ~handDetecting /\ timers = {} /\ loopCalls = 0

\* C36: after a stop() that no start() follows, once the calls in flight have
\* settled the loop comes to rest and stays there: from then on only start()
\* schedules a cycle or calls the detector, and only a block writes the cache.
C36_LoopComesToRest ==
    /\ (<>[]~handDetecting) => <>[]LoopIdle
    /\ [][(LoopIdle /\ ~startHandDetection) =>
            /\ LoopIdle'
            /\ handler' \notin {"detectFrame", "detectFrameResolved", "detectFrameRejected"}
            /\ hands' # hands => stopHandDetection]_vars

C36_Witness ==
    /\ handler = "detectFrame"
    /\ calls = {}
    /\ LoopIdle
    /\ hands = MakeResult(1)

\* C37: when two setModelPath calls with different paths overlap and both
\* reinitialisations succeed, the landmarker in use after the second
\* settlement is the one built for the path getModelPath() returns, whichever
\* of the two settles last.
C37_OverlappingReinitsEndOnLastPath ==
    [][(/\ handler = "setModelPathResolved"
        /\ Len(landmarker.creating) = 1
        /\ landmarker.creating[1] # handLandmarker
        /\ setModelPathResolved(1))
            => handLandmarker' = getModelPath']_vars

\* C38: when the reinitialisation started by setModelPath(p) fails, the
\* landmarker that was in use stays in use, and getModelPath() keeps
\* returning p: the stored path is not put back.
C38_FailedReinitKeepsLandmarker ==
    [][\A k \in 1..MaxReinit : setModelPathRejected(k) =>
        /\ handLandmarker' = handLandmarker
        /\ handLandmarker' # <<>>
        /\ getModelPath' = getModelPath]_vars

C38_Witness ==
    /\ handler = "setModelPathRejected"
    /\ returned = ReinitErrorMessage
    /\ getModelPath = <<"a">>
    /\ handLandmarker = DefaultModelAssetPath
    /\ landmarker.creating = <<>>

\* C39: on a cache that holds a hand, handedness and the six landmark
\* queries return a value and raise nothing, for every hand number and
\* landmark index, whole or not.
C39_QueriesNeverRaise ==
    (handler \in QueryBlocks \ {"numberOfHands"} /\ numberOfHands > 0) =>
        "TypeError" \notin calls

\* the costume list and the name of the last lookup, and the number the name
\* parses as
AskedCostumes == asked.target
AskedCostumeNumber == parseInt(convertToHalfWidthInt(asked.costumeName))
AskedCostumeMatches == \E k \in 1..Len(AskedCostumes) : AskedCostumes[k] = asked.costumeName

\* C40: a costume named exactly as asked is the one returned; otherwise a
\* name that parses as an integer n other than 0 is a 1-based index, counted
\* from the end when negative and clamped, so that on a list of L > 0
\* costumes the index is in [0, L-1] (L-1 for n > L, 0 for n < -L); a name
\* that parses as no number or as 0 gives null.
C40_CostumeByNameOrNumber ==
    handler = "getCostumeIndexByNameOrNumber" =>
        LET L == Len(AskedCostumes)
            n == AskedCostumeNumber
        IN  /\ AskedCostumeMatches =>
                /\ returned.kind = "num"
                /\ returned.v \in 0..(L - 1)
                /\ AskedCostumes[returned.v + 1] = asked.costumeName
            /\ (~AskedCostumeMatches /\ (n.kind = "nan" \/ n.v = 0)) => returned = Null
            /\ (~AskedCostumeMatches /\ n.kind = "num" /\ n.v # 0 /\ L > 0) =>
                /\ returned.kind = "num"
                /\ returned.v \in 0..(L - 1)
                /\ n.v \in 1..L => returned.v = n.v - 1
                /\ n.v \in (0 - L)..(0 - 1) => returned.v = L + n.v
                /\ n.v > L => returned.v = L - 1
                /\ n.v < 0 - L => returned.v = 0

C40_Witness ==
    /\ handler = "getCostumeIndexByNameOrNumber"
    /\ asked.costumeName = <<"9">>
    /\ Len(AskedCostumes) = MaxCostumes
    /\ returned = Num(MaxCostumes - 1)
====
